---- MODULE Spec2Model ----
(***************************************************************************)
(* Road-network pathfinding of the Forma pathfinder extension:             *)
(* buildRoadGraph, addPointToGraph, dijkstra and findShortestPath          *)
(* (pathfinding module) over the geometry primitives of geometry-utils.ts. *)
(*                                                                         *)
(* Numbers.  The program computes in IEEE doubles.  The model computes     *)
(* exactly, on coordinates that are whole multiples of a grid unit of      *)
(* 0.00025 (a quarter of the program's 0.001 tolerance), so that the       *)
(* program's tolerances are whole numbers of grid units:                   *)
(*     0.001 (on-segment tolerance, minimum edge length)  =  4 units       *)
(*     toFixed(6) keeps 10^-6                             =  1/250 unit    *)
(* Projection parameters t are kept as exact fractions num/den.  The       *)
(* segments and points the model draws from have the 8 compass directions  *)
(* and even coordinates, for which every intersection point is a whole     *)
(* grid point.  A distance (Math.sqrt) is kept in thousandths of a grid    *)
(* unit, rounded down: a deterministic, monotone rounding standing for the *)
(* double's.                                                               *)
(***************************************************************************)
EXTENDS Integers, Sequences, FiniteSets, TLC

VARIABLES roadSegments, graph, pc, calls, last,
          buildingCenters, snapped, outcome,
          dj,
          pathIdRef, rendered, isCalculating, findPathTask, resetTasks, issued

\* The road network, its graph and the last call made on it.
graphVars == <<roadSegments, graph, pc, calls, last>>
\* calculatePath: the building centres looked up, their closest road points
\* and the result returned.
flowVars == <<buildingCenters, snapped, outcome>>
\* dijkstra: the locals of a search in progress.
searchVars == <<dj>>
\* The panel: pathIdRef, what the host renders, isCalculating and the
\* handlers in flight.
panelVars == <<pathIdRef, rendered, isCalculating, findPathTask, resetTasks, issued>>

vars == <<graphVars, flowVars, searchVars, panelVars>>

\* ---------------------------------------------------------------- bounds
MaxSegs == 2
MaxCalls == 1
MaxBuildings == 3
MaxQueries == 2

\* ------------------------------------------------------------- constants
\* 0.001 in grid units: |proj - point| < 0.001 in getParameterOnSegment.
ON_SEGMENT_TOL == 4
\* 0.001 in grid units: the default tolerance of pointsAreEqual.
POINTS_EQUAL_TOL == 4
\* 0.001 in thousandths of a grid unit: distance > 0.001 in buildRoadGraph.
MIN_EDGE == 4000
\* 10^-6 (toFixed(6)) per grid unit of 0.00025: 250 id steps per unit.
ID_STEPS == 250

\* ------------------------------------------------------------ null/option
Null == <<>>
Some(v) == <<v>>
IsNull(o) == o = <<>>
Val(o) == o[1]

Abs(n) == IF n < 0 THEN -n ELSE n

Pt(a, b) == [x |-> a, y |-> b]
Seg(a, b) == [start |-> a, end |-> b]

\* ---------------------------------------------------- geometry-utils.ts
RECURSIVE SqrtSearch(_, _, _)
\* The largest r in lo..hi with r*r <= n  (lo*lo <= n < (hi+1)*(hi+1)).
SqrtSearch(n, lo, hi) ==
  IF lo >= hi THEN lo
  ELSE LET mid == (lo + hi + 1) \div 2
       IN IF mid * mid <= n THEN SqrtSearch(n, mid, hi)
          ELSE SqrtSearch(n, lo, mid - 1)

\* Math.sqrt of a squared length in grid units^2, in thousandths of a unit.
SqrtTable == [n \in 0..1300 |-> SqrtSearch(n * 1000000, 0, 40000)]

distanceBetweenPoints(p1, p2) ==
  LET dx == p2.x - p1.x
      dy == p2.y - p1.y
  IN SqrtTable[dx * dx + dy * dy]

\* lengthSq < EPSILON (1e-10): 1e-10 is 0.0016 grid units^2.
BelowEpsilon(v) == v * 10000 < 16

pointsAreEqual(p1, p2) ==
  /\ Abs(p1.x - p2.x) < POINTS_EQUAL_TOL
  /\ Abs(p1.y - p2.y) < POINTS_EQUAL_TOL

\* toFixed(6) of a coordinate, as a count of 10^-6: the id is the pair.
ToFixed6(c) == c * ID_STEPS

pointToId(point) == <<ToFixed6(point.x), ToFixed6(point.y)>>

getIntersectionPoint(p1, p2, p3, p4) ==
  LET d1x == p2.x - p1.x
      d1y == p2.y - p1.y
      d2x == p4.x - p3.x
      d2y == p4.y - p3.y
      cross == d1x * d2y - d1y * d2x
      dx == p3.x - p1.x
      dy == p3.y - p1.y
      tn == dx * d2y - dy * d2x
      un == dx * d1y - dy * d1x
      \* 0 <= n/cross <= 1
      InUnit(n) == IF cross > 0 THEN 0 <= n /\ n <= cross
                   ELSE cross <= n /\ n <= 0
  IN IF BelowEpsilon(Abs(cross)) THEN Null
     ELSE IF InUnit(tn) /\ InUnit(un)
          THEN Some(Pt(p1.x + (tn * d1x) \div cross, p1.y + (tn * d1y) \div cross))
          ELSE Null

\* ------------------------------------------------------------ pathfinding
\* A projection parameter t = num/den (den > 0), or Null.
Frac(n, d) == [num |-> n, den |-> d]

\* Mutant: the parameter is returned without the check that the point is on
\* the segment's line.
getParameterOnSegment_NoTolerance(point, start, end) ==
  LET dx == end.x - start.x
      dy == end.y - start.y
      lengthSq == dx * dx + dy * dy
      tnum == (point.x - start.x) * dx + (point.y - start.y) * dy
  IN IF BelowEpsilon(lengthSq)
     THEN IF pointsAreEqual(point, start) THEN Some(Frac(0, 1)) ELSE Null
     ELSE Some(Frac(tnum, lengthSq))

getParameterOnSegment(point, start, end) ==
  LET dx == end.x - start.x
      dy == end.y - start.y
      lengthSq == dx * dx + dy * dy
      tnum == (point.x - start.x) * dx + (point.y - start.y) * dy
      \* (projX - point.x) * lengthSq and (projY - point.y) * lengthSq
      offX == (start.x - point.x) * lengthSq + tnum * dx
      offY == (start.y - point.y) * lengthSq + tnum * dy
  IN IF BelowEpsilon(lengthSq)
     THEN IF pointsAreEqual(point, start) THEN Some(Frac(0, 1)) ELSE Null
     ELSE IF /\ Abs(offX) < ON_SEGMENT_TOL * lengthSq
             /\ Abs(offY) < ON_SEGMENT_TOL * lengthSq
          THEN Some(Frac(tnum, lengthSq))
          ELSE Null

\* t !== null && t >= 0 && t <= 1
InRange(t) == ~IsNull(t) /\ Val(t).num >= 0 /\ Val(t).num <= Val(t).den

\* a.t - b.t < 0
FracLess(a, b) == a.num * b.den < b.num * a.den

HasNode(nodes, id) == \E i \in 1..Len(nodes) : nodes[i].id = id

\* nodes is the Map in insertion order: a sequence of [id, point].
addNode(nodes, point) ==
  LET id == pointToId(point)
  IN IF HasNode(nodes, id) THEN nodes
     ELSE Append(nodes, [id |-> id, point |-> point])

RECURSIVE EndpointNodes(_, _, _)
\* Lines 15-18: both endpoints of every segment, in order.
EndpointNodes(segs, i, nodes) ==
  IF i > Len(segs) THEN nodes
  ELSE EndpointNodes(segs, i + 1, addNode(addNode(nodes, segs[i].start), segs[i].end))

\* Mutant: the pairs of segments are not intersected.
IntersectionNodes_None(segs, i, j, nodes) == nodes

RECURSIVE IntersectionNodes(_, _, _, _)
\* Lines 21-37: the intersection of every pair i < j, i ascending then j.
IntersectionNodes(segs, i, j, nodes) ==
  IF i > Len(segs) THEN nodes
  ELSE IF j > Len(segs) THEN IntersectionNodes(segs, i + 1, i + 2, nodes)
  ELSE LET intersection == getIntersectionPoint(segs[i].start, segs[i].end,
                                                segs[j].start, segs[j].end)
       IN IntersectionNodes(segs, i, j + 1,
            IF IsNull(intersection) THEN nodes ELSE addNode(nodes, Val(intersection)))

RECURSIVE NodesOnSegment(_, _, _)
\* Lines 43-48: the nodes with a parameter in [0,1], in Map order.
NodesOnSegment(nodes, segment, i) ==
  IF i > Len(nodes) THEN <<>>
  ELSE LET t == getParameterOnSegment(nodes[i].point, segment.start, segment.end)
           rest == NodesOnSegment(nodes, segment, i + 1)
       IN IF InRange(t) THEN <<[node |-> nodes[i], t |-> Val(t)]>> \o rest ELSE rest

RECURSIVE InsertByT(_, _)
\* Insert e after every entry whose t is not greater (a stable sort's step).
InsertByT(sorted, e) ==
  IF sorted = <<>> THEN <<e>>
  ELSE IF FracLess(e.t, Head(sorted).t) THEN <<e>> \o sorted
  ELSE <<Head(sorted)>> \o InsertByT(Tail(sorted), e)

RECURSIVE SortByT(_, _, _)
\* Line 51: nodesOnSegment.sort((a, b) => a.t - b.t), stable.
SortByT(list, i, acc) ==
  IF i > Len(list) THEN acc ELSE SortByT(list, i + 1, InsertByT(acc, list[i]))

RECURSIVE ConsecutiveEdges_AtLeast(_, _)
\* Mutant: a pair exactly 0.001 apart gets an edge (>= for >).
ConsecutiveEdges_AtLeast(ons, i) ==
  IF i >= Len(ons) THEN <<>>
  ELSE LET fromNode == ons[i].node
           toNode == ons[i + 1].node
           distance == distanceBetweenPoints(fromNode.point, toNode.point)
           rest == ConsecutiveEdges_AtLeast(ons, i + 1)
       IN IF distance >= MIN_EDGE
          THEN <<[from |-> fromNode.id, to |-> toNode.id, distance |-> distance]>> \o rest
          ELSE rest

RECURSIVE ConsecutiveEdges(_, _)
\* Lines 54-66: an edge per consecutive pair farther apart than 0.001.
ConsecutiveEdges(ons, i) ==
  IF i >= Len(ons) THEN <<>>
  ELSE LET fromNode == ons[i].node
           toNode == ons[i + 1].node
           distance == distanceBetweenPoints(fromNode.point, toNode.point)
           rest == ConsecutiveEdges(ons, i + 1)
       IN IF distance > MIN_EDGE
          THEN <<[from |-> fromNode.id, to |-> toNode.id, distance |-> distance]>> \o rest
          ELSE rest

RECURSIVE SegmentEdges(_, _, _)
\* Lines 40-67: the edges of every segment, in segment order.
SegmentEdges(segs, nodes, i) ==
  IF i > Len(segs) THEN <<>>
  ELSE ConsecutiveEdges(SortByT(NodesOnSegment(nodes, segs[i], 1), 1, <<>>), 1)
       \o SegmentEdges(segs, nodes, i + 1)

NodeIds(nodes) == {nodes[i].id : i \in 1..Len(nodes)}

RECURSIVE AdjacencyOf_OneDirection(_, _, _)
\* Mutant: an edge is pushed onto the list of its `from` end only.
AdjacencyOf_OneDirection(edges, i, adj) ==
  IF i > Len(edges) THEN adj
  ELSE LET e == edges[i]
           a1 == [adj EXCEPT ![e.from] = Append(@, [nodeId |-> e.to, distance |-> e.distance])]
       IN AdjacencyOf_OneDirection(edges, i + 1, a1)

RECURSIVE AdjacencyOf(_, _, _)
\* Lines 74-77: each edge pushed onto both ends' lists.
AdjacencyOf(edges, i, adj) ==
  IF i > Len(edges) THEN adj
  ELSE LET e == edges[i]
           a1 == [adj EXCEPT ![e.from] = Append(@, [nodeId |-> e.to, distance |-> e.distance])]
           a2 == [a1 EXCEPT ![e.to] = Append(@, [nodeId |-> e.from, distance |-> e.distance])]
       IN AdjacencyOf(edges, i + 1, a2)

buildRoadGraph(segs) ==
  LET nodes == IntersectionNodes(segs, 1, 2, EndpointNodes(segs, 1, <<>>))
      edges == SegmentEdges(segs, nodes, 1)
      empty == [id \in NodeIds(nodes) |-> <<>>]
  IN [nodes |-> nodes, edges |-> edges, adjacency |-> AdjacencyOf(edges, 1, empty)]


\* Mutant: the new node lists the segment's ends, which do not list it back.
addPointToGraphFrom_OneWay(g, point, segs, i) ==
  LET segment == segs[i]
      nodeId == pointToId(point)
      entries == <<[nodeId |-> pointToId(segment.start),
                    distance |-> distanceBetweenPoints(point, segment.start)],
                   [nodeId |-> pointToId(segment.end),
                    distance |-> distanceBetweenPoints(point, segment.end)]>>
  IN [graph |-> [nodes |-> addNode(g.nodes, point),
                 edges |-> g.edges,
                 adjacency |-> [id \in DOMAIN g.adjacency \cup {nodeId} |->
                                  IF id = nodeId THEN entries ELSE g.adjacency[id]]],
      id |-> Some(nodeId)]

\* Mutant: the segment ends' lists are set to the new entry, not pushed to.
addPointToGraphFrom_Overwrite(g, point, segs, i) ==
  LET segment == segs[i]
      nodeId == pointToId(point)
      startId == pointToId(segment.start)
      endId == pointToId(segment.end)
      distToStart == distanceBetweenPoints(point, segment.start)
      distToEnd == distanceBetweenPoints(point, segment.end)
      adj == [id \in DOMAIN g.adjacency \cup {nodeId} |->
                IF id = nodeId
                THEN <<[nodeId |-> startId, distance |-> distToStart],
                       [nodeId |-> endId, distance |-> distToEnd]>>
                ELSE IF id = startId THEN <<[nodeId |-> nodeId, distance |-> distToStart]>>
                ELSE IF id = endId THEN <<[nodeId |-> nodeId, distance |-> distToEnd]>>
                ELSE g.adjacency[id]]
  IN [graph |-> [nodes |-> addNode(g.nodes, point), edges |-> g.edges, adjacency |-> adj],
      id |-> Some(nodeId)]

\* Lines 119-161.  Returns the graph after the call and the id (or Null).
addPointToGraphFrom(g, point, segs, i) ==
  LET segment == segs[i]
      nodeId == pointToId(point)
      nodes1 == addNode(g.nodes, point)
      adj0 == [id \in DOMAIN g.adjacency \cup {nodeId} |->
                 IF id = nodeId THEN <<>> ELSE g.adjacency[id]]
      startId == pointToId(segment.start)
      endId == pointToId(segment.end)
      distToStart == distanceBetweenPoints(point, segment.start)
      distToEnd == distanceBetweenPoints(point, segment.end)
      \* graph.adjacency.get(id)?.push(entry): nothing when the key is absent
      Push(adj, id, entry) ==
        IF id \in DOMAIN adj THEN [adj EXCEPT ![id] = Append(@, entry)] ELSE adj
      adj1 == IF HasNode(nodes1, startId)
              THEN Push(Push(adj0, nodeId, [nodeId |-> startId, distance |-> distToStart]),
                        startId, [nodeId |-> nodeId, distance |-> distToStart])
              ELSE adj0
      adj2 == IF HasNode(nodes1, endId)
              THEN Push(Push(adj1, nodeId, [nodeId |-> endId, distance |-> distToEnd]),
                        endId, [nodeId |-> nodeId, distance |-> distToEnd])
              ELSE adj1
  IN [graph |-> [nodes |-> nodes1, edges |-> g.edges, adjacency |-> adj2],
      id |-> Some(nodeId)]

\* The segment test of line 133.
SegmentAccepts(point, segment) ==
  InRange(getParameterOnSegment(point, segment.start, segment.end))

RECURSIVE FirstSegment(_, _, _)
\* Lines 131-133: the index of the first segment the point lies on, or 0.
FirstSegment(point, segs, i) ==
  IF i > Len(segs) THEN 0
  ELSE IF SegmentAccepts(point, segs[i]) THEN i
  ELSE FirstSegment(point, segs, i + 1)

\* Mutant: no early return for a point that is a node already.
addPointToGraph_NoExistingCheck(g, point, segs) ==
  LET i == FirstSegment(point, segs, 1)
  IN IF i = 0 THEN [graph |-> g, id |-> Null]
     ELSE addPointToGraphFrom(g, point, segs, i)

addPointToGraph(g, point, segs) ==
  LET existingId == pointToId(point)
      i == FirstSegment(point, segs, 1)
  IN IF HasNode(g.nodes, existingId) THEN [graph |-> g, id |-> Some(existingId)]
     ELSE IF i = 0 THEN [graph |-> g, id |-> Null]
     ELSE addPointToGraphFrom(g, point, segs, i)

\* ------------------------------------------------------------- dijkstra
\* A tentative distance: a number, or Infinity.
Infinity == Null
DistLess(n, d) == IsNull(d) \/ n < Val(d)

RECURSIVE InsertByDistance(_, _)
InsertByDistance(sorted, e) ==
  IF sorted = <<>> THEN <<e>>
  ELSE IF e.distance < Head(sorted).distance THEN <<e>> \o sorted
  ELSE <<Head(sorted)>> \o InsertByDistance(Tail(sorted), e)

RECURSIVE SortByDistance(_, _, _)
\* Mutant: the queue is left in push order, so the oldest entry is taken.
SortByDistance_Unsorted(queue, i, acc) == queue

\* Line 189: queue.sort((a, b) => a.distance - b.distance), stable.
SortByDistance(queue, i, acc) ==
  IF i > Len(queue) THEN acc
  ELSE SortByDistance(queue, i + 1, InsertByDistance(acc, queue[i]))

RECURSIVE Relax_NotStrict(_, _, _, _)
\* Mutant: a neighbour is pushed when the new distance is not greater (<= for <).
Relax_NotStrict(neighbors, i, current, st) ==
  IF i > Len(neighbors) THEN st
  ELSE LET neighbor == neighbors[i]
           newDist == Val(st.distances[current]) + neighbor.distance
           old == st.distances[neighbor.nodeId]
       IN IF neighbor.nodeId \in st.visited
          THEN Relax_NotStrict(neighbors, i + 1, current, st)
          ELSE IF IsNull(old) \/ newDist <= Val(old)
          THEN Relax_NotStrict(neighbors, i + 1, current,
                 [st EXCEPT !.distances[neighbor.nodeId] = Some(newDist),
                            !.previous[neighbor.nodeId] = Some(current),
                            !.queue = Append(@, [nodeId |-> neighbor.nodeId,
                                                 distance |-> newDist])])
          ELSE Relax_NotStrict(neighbors, i + 1, current, st)

RECURSIVE Relax(_, _, _, _)
\* Lines 202-213: the neighbours of current, in list order.
Relax(neighbors, i, current, st) ==
  IF i > Len(neighbors) THEN st
  ELSE LET neighbor == neighbors[i]
           newDist == Val(st.distances[current]) + neighbor.distance
       IN IF neighbor.nodeId \in st.visited
          THEN Relax(neighbors, i + 1, current, st)
          ELSE IF DistLess(newDist, st.distances[neighbor.nodeId])
          THEN Relax(neighbors, i + 1, current,
                 [st EXCEPT !.distances[neighbor.nodeId] = Some(newDist),
                            !.previous[neighbor.nodeId] = Some(current),
                            !.queue = Append(@, [nodeId |-> neighbor.nodeId,
                                                 distance |-> newDist])])
          ELSE Relax(neighbors, i + 1, current, st)

RECURSIVE DijkstraLoop(_, _, _)
\* Lines 187-214.
DijkstraLoop(g, endId, st) ==
  IF st.queue = <<>> THEN st
  ELSE LET sorted == SortByDistance(st.queue, 1, <<>>)
           current == Head(sorted)
           popped == [st EXCEPT !.queue = Tail(sorted)]
           neighbors == IF current.nodeId \in DOMAIN g.adjacency
                        THEN g.adjacency[current.nodeId] ELSE <<>>
       IN IF current.nodeId \in st.visited THEN DijkstraLoop(g, endId, popped)
          ELSE LET seen == [popped EXCEPT !.visited = @ \cup {current.nodeId}]
               IN IF current.nodeId = endId THEN seen
                  ELSE DijkstraLoop(g, endId, Relax(neighbors, 1, current.nodeId, seen))

RECURSIVE PathTo(_, _, _)
\* Lines 222-227: unshift along the predecessor links.
PathTo(previous, current, path) ==
  IF IsNull(current) THEN path
  ELSE PathTo(previous, previous[Val(current)], <<Val(current)>> \o path)

\* Lines 163-230.  Null, or [path, distance].
dijkstra(g, startId, endId) ==
  IF ~HasNode(g.nodes, startId) \/ ~HasNode(g.nodes, endId) THEN Null
  ELSE LET ids == NodeIds(g.nodes)
           st0 == [distances |-> [id \in ids |-> IF id = startId THEN Some(0) ELSE Infinity],
                   previous |-> [id \in ids |-> Null],
                   visited |-> {},
                   queue |-> <<[nodeId |-> startId, distance |-> 0]>>]
           st == DijkstraLoop(g, endId, st0)
           finalDistance == st.distances[endId]
       IN IF finalDistance = Infinity THEN Null
          ELSE Some([path |-> PathTo(st.previous, Some(endId), <<>>),
                     distance |-> Val(finalDistance)])

NodePoint(nodes, id) ==
  LET i == CHOOSE k \in 1..Len(nodes) : nodes[k].id = id IN nodes[i].point

Failure(msg) == [success |-> FALSE, path |-> <<>>, distance |-> 0, error |-> msg]

\* Mutant: the end point's failure reports the start point's reason.
findShortestPath_SameReason(startPoint, endPoint, g, segs) ==
  LET a1 == addPointToGraph(g, startPoint, segs)
      a2 == addPointToGraph(a1.graph, endPoint, segs)
      g2 == a2.graph
      result == IF IsNull(a1.id) \/ IsNull(a2.id) THEN Null
                ELSE dijkstra(g2, Val(a1.id), Val(a2.id))
      out == IF IsNull(a1.id) \/ IsNull(a2.id) THEN Failure("Start point is not on any road")
             ELSE IF IsNull(result) THEN Failure("No path found between the two points")
             ELSE [success |-> TRUE,
                   path |-> [k \in 1..Len(Val(result).path) |->
                               NodePoint(g2.nodes, Val(result).path[k])],
                   distance |-> Val(result).distance,
                   error |-> ""]
  IN [graph |-> g2, startId |-> a1.id, endId |-> a2.id, result |-> out]

\* Lines 232-282.  The graph after the call, the two ids and the PathResult.
findShortestPath(startPoint, endPoint, g, segs) ==
  LET a1 == addPointToGraph(g, startPoint, segs)
      a2 == addPointToGraph(a1.graph, endPoint, segs)
      g2 == a2.graph
      result == IF IsNull(a1.id) \/ IsNull(a2.id) THEN Null
                ELSE dijkstra(g2, Val(a1.id), Val(a2.id))
      out == IF IsNull(a1.id) THEN Failure("Start point is not on any road")
             ELSE IF IsNull(a2.id) THEN Failure("End point is not on any road")
             ELSE IF IsNull(result) THEN Failure("No path found between the two points")
             ELSE [success |-> TRUE,
                   path |-> [k \in 1..Len(Val(result).path) |->
                               IF HasNode(g2.nodes, Val(result).path[k])
                               THEN NodePoint(g2.nodes, Val(result).path[k])
                               ELSE Pt(0, 0)],
                   distance |-> Val(result).distance,
                   error |-> ""]
  IN [graph |-> g2, startId |-> a1.id, endId |-> a2.id, result |-> out]


\* ------------------------------------------- geometry-utils.ts, snapping
\* Mutant: the parameter is not clamped to [0,1].
closestPointOnSegment_Unclamped(point, segmentStart, segmentEnd) ==
  LET dx == segmentEnd.x - segmentStart.x
      dy == segmentEnd.y - segmentStart.y
      lengthSquared == dx * dx + dy * dy
      tnum == (point.x - segmentStart.x) * dx + (point.y - segmentStart.y) * dy
  IN IF BelowEpsilon(lengthSquared) THEN segmentStart
     ELSE Pt(segmentStart.x + (tnum * dx) \div lengthSquared,
             segmentStart.y + (tnum * dy) \div lengthSquared)

\* Lines 11-33.  t = tnum / lengthSquared, clamped to [0,1].
closestPointOnSegment(point, segmentStart, segmentEnd) ==
  LET dx == segmentEnd.x - segmentStart.x
      dy == segmentEnd.y - segmentStart.y
      lengthSquared == dx * dx + dy * dy
      tnum == (point.x - segmentStart.x) * dx + (point.y - segmentStart.y) * dy
      clamped == IF tnum < 0 THEN 0 ELSE IF tnum > lengthSquared THEN lengthSquared ELSE tnum
  IN IF BelowEpsilon(lengthSquared) THEN segmentStart
     ELSE Pt(segmentStart.x + (clamped * dx) \div lengthSquared,
             segmentStart.y + (clamped * dy) \div lengthSquared)

RECURSIVE ClosestScan_LastWins(_, _, _, _, _)
\* Mutant: a segment at the same distance replaces the one kept (<= for <).
ClosestScan_LastWins(buildingCenter, segs, i, closest, minDistance) ==
  IF i > Len(segs) THEN closest
  ELSE LET pointOnSegment == closestPointOnSegment(buildingCenter, segs[i].start, segs[i].end)
           distance == distanceBetweenPoints(buildingCenter, pointOnSegment)
       IN IF IsNull(minDistance) \/ distance <= Val(minDistance)
          THEN ClosestScan_LastWins(buildingCenter, segs, i + 1,
                           Some([point |-> pointOnSegment, distance |-> distance,
                                 segmentIndex |-> i - 1]),
                           Some(distance))
          ELSE ClosestScan_LastWins(buildingCenter, segs, i + 1, closest, minDistance)

RECURSIVE ClosestScan(_, _, _, _, _)
\* Lines 42-60: the scan, keeping the strictly smaller distance.
ClosestScan(buildingCenter, segs, i, closest, minDistance) ==
  IF i > Len(segs) THEN closest
  ELSE LET pointOnSegment == closestPointOnSegment(buildingCenter, segs[i].start, segs[i].end)
           distance == distanceBetweenPoints(buildingCenter, pointOnSegment)
       IN IF DistLess(distance, minDistance)
          THEN ClosestScan(buildingCenter, segs, i + 1,
                           Some([point |-> pointOnSegment, distance |-> distance,
                                 segmentIndex |-> i - 1]),
                           Some(distance))
          ELSE ClosestScan(buildingCenter, segs, i + 1, closest, minDistance)

\* Lines 35-63.  Null, or [point, distance, segmentIndex] (index from 0).
findClosestRoadPoint(buildingCenter, segs) ==
  ClosestScan(buildingCenter, segs, 1, Null, Infinity)

\* ------------------------------------------------------ geojson helpers
\* [p.x, p.y]
Coord(p) == <<p.x, p.y>>

LineFeature(stroke, coordinates) ==
  [type |-> "Feature", stroke |-> stroke, coordinates |-> coordinates]

\* part_002 lines 3-23: one red line through the path.
createPathGeoJSON(path) ==
  [type |-> "FeatureCollection",
   features |-> <<LineFeature("#ff0000", [k \in 1..Len(path) |-> Coord(path[k])])>>]

\* Mutant: the end point's line starts at the first building centre.
createObstacleHighlightGeoJSON_SameCentre(centers, startRoadPoint, endRoadPoint) ==
  LET first == IF IsNull(startRoadPoint) THEN <<>>
               ELSE <<LineFeature("#ff8c00",
                        <<Coord(centers[1]), Coord(Val(startRoadPoint).point)>>)>>
      second == IF IsNull(endRoadPoint) THEN <<>>
                ELSE <<LineFeature("#ff8c00",
                         <<Coord(centers[1]), Coord(Val(endRoadPoint).point)>>)>>
      features == first \o second
  IN IF Len(features) = 0 THEN Null
     ELSE Some([type |-> "FeatureCollection", features |-> features])

\* part_002 lines 25-76: Null (undefined), or up to two orange lines.
createObstacleHighlightGeoJSON(centers, startRoadPoint, endRoadPoint) ==
  LET first == IF IsNull(startRoadPoint) THEN <<>>
               ELSE <<LineFeature("#ff8c00",
                        <<Coord(centers[1]), Coord(Val(startRoadPoint).point)>>)>>
      second == IF IsNull(endRoadPoint) THEN <<>>
                ELSE <<LineFeature("#ff8c00",
                         <<Coord(centers[2]), Coord(Val(endRoadPoint).point)>>)>>
      features == first \o second
  IN IF Len(features) = 0 THEN Null
     ELSE Some([type |-> "FeatureCollection", features |-> features])

\* ------------------------------------------------------ forma-service.ts
\* A PathfindingResult: absent members are Null.
PathFailure(msg, geojson) ==
  [success |-> FALSE, geojson |-> geojson, distance |-> Null, error |-> Some(msg)]

\* Mutant: the two connector legs are added to the reported distance.
RouteResult_WithConnectors(centers, startRoadPoint, endRoadPoint, r) ==
  LET fullPath == <<centers[1], Val(startRoadPoint).point>> \o r.result.path
                    \o <<Val(endRoadPoint).point, centers[2]>>
  IN [graph |-> Some(r.graph), search |-> Some(r),
      snapped |-> <<startRoadPoint, endRoadPoint>>,
      outcome |->
        IF ~r.result.success
        THEN PathFailure(IF r.result.error # "" THEN r.result.error ELSE "No path found",
               createObstacleHighlightGeoJSON(centers, startRoadPoint, endRoadPoint))
        ELSE [success |-> TRUE, geojson |-> Some(createPathGeoJSON(fullPath)),
              distance |-> Some(Val(startRoadPoint).distance + r.result.distance
                                  + Val(endRoadPoint).distance), error |-> Null]]

\* Lines 196-216: what calculatePath returns once the search r is made.
RouteResult(centers, startRoadPoint, endRoadPoint, r) ==
  LET fullPath == <<centers[1], Val(startRoadPoint).point>> \o r.result.path
                    \o <<Val(endRoadPoint).point, centers[2]>>
  IN [graph |-> Some(r.graph), search |-> Some(r),
      snapped |-> <<startRoadPoint, endRoadPoint>>,
      outcome |->
        IF ~r.result.success
        THEN PathFailure(IF r.result.error # "" THEN r.result.error ELSE "No path found",
               createObstacleHighlightGeoJSON(centers, startRoadPoint, endRoadPoint))
        ELSE [success |-> TRUE, geojson |-> Some(createPathGeoJSON(fullPath)),
              distance |-> Some(r.result.distance), error |-> Null]]

\* Lines 180-194: the two closest road points are known.
RouteFromSnapped(segs, centers, startRoadPoint, endRoadPoint) ==
  IF IsNull(startRoadPoint) \/ IsNull(endRoadPoint)
  THEN [graph |-> Null, search |-> Null,
        snapped |-> <<startRoadPoint, endRoadPoint>>,
        outcome |-> PathFailure("Could not find roads near buildings",
                      createObstacleHighlightGeoJSON(centers, startRoadPoint,
                                                     endRoadPoint))]
  ELSE RouteResult(centers, startRoadPoint, endRoadPoint,
                   findShortestPath(Val(startRoadPoint).point, Val(endRoadPoint).point,
                                    buildRoadGraph(segs), segs))

\* Lines 173-216: calculatePath once the building centres are known.  The
\* result, with the graph built and the search made (Null: none) and the
\* two snapped points.
calculatePathFrom(segs, centers) ==
  IF Len(centers) # 2
  THEN [graph |-> Null, search |-> Null, snapped |-> <<Null, Null>>,
        outcome |-> PathFailure("Could not get building geometry", Null)]
  ELSE RouteFromSnapped(segs, centers, findClosestRoadPoint(centers[1], segs),
                        findClosestRoadPoint(centers[2], segs))

\* ------------------------------------------------------------ the inputs
\* Road segments: long roads, a T junction, a crossing, a road ending half a
\* millimetre short of another, roads of 0.5 mm and of exactly 1 mm, two
\* diagonals, an overlapping road and a zero-length one.
SegUniverse ==
  { Seg(Pt(0, 0), Pt(16, 0)),
    Seg(Pt(0, 8), Pt(16, 8)),
    Seg(Pt(8, 0), Pt(8, 16)),
    Seg(Pt(8, 16), Pt(8, 2)),
    Seg(Pt(16, 0), Pt(16, 2)),
    Seg(Pt(16, 4), Pt(16, 0)),
    Seg(Pt(0, 0), Pt(16, 16)),
    Seg(Pt(0, 16), Pt(16, 0)),
    Seg(Pt(16, 0), Pt(8, 0)),
    Seg(Pt(8, 8), Pt(8, 8)) }

\* Query points: nodes, points between nodes, a point within the tolerance
\* of a road, a point off every road.
QueryPts ==
  { Pt(0, 0), Pt(4, 0), Pt(12, 0), Pt(8, 8), Pt(4, 2), Pt(20, 12) }

SegLists == UNION {[1..n -> SegUniverse] : n \in 0..MaxSegs}

EmptyGraph == [nodes |-> <<>>, edges |-> <<>>, adjacency |-> <<>>]

NoResult == [success |-> FALSE, path |-> <<>>, distance |-> 0, error |-> ""]

NoCall == [op |-> "none", p |-> Pt(0, 0), q |-> Pt(0, 0),
           startId |-> Null, endId |-> Null, result |-> NoResult]

\* No calculatePath result yet.
NoOutcome == [success |-> FALSE, geojson |-> Null, distance |-> Null, error |-> Null]

\* No search in progress.
NoSearch == [phase |-> "none"]

\* No handler in flight.
NoTask == [at |-> "idle", id |-> Null]

FlowIdle == buildingCenters = <<>> /\ snapped = <<Null, Null>> /\ outcome = NoOutcome
SearchIdle == dj = NoSearch
PanelIdle ==
  /\ pathIdRef = Null
  /\ rendered = {}
  /\ isCalculating = FALSE
  /\ findPathTask = NoTask
  /\ resetTasks = <<>>
  /\ issued = 0

\* --------------------------------------------------------------- actions
Init ==
  /\ roadSegments \in SegLists
  /\ graph = EmptyGraph
  /\ pc = "segments"
  /\ calls = 0
  /\ last = NoCall
  /\ FlowIdle /\ SearchIdle /\ PanelIdle

BuildRoadGraph ==
  /\ pc = "segments"
  /\ graph' = buildRoadGraph(roadSegments)
  /\ pc' = "built"
  /\ last' = [NoCall EXCEPT !.op = "buildRoadGraph"]
  /\ UNCHANGED <<roadSegments, calls>>
  /\ UNCHANGED <<flowVars, searchVars, panelVars>>

AddPointToGraph ==
  /\ pc = "built"
  /\ calls < MaxCalls
  /\ \E point \in QueryPts :
       \E r \in {addPointToGraph(graph, point, roadSegments)} :
          /\ graph' = r.graph
          /\ last' = [NoCall EXCEPT !.op = "addPointToGraph", !.p = point,
                                    !.startId = r.id]
  /\ calls' = calls + 1
  /\ UNCHANGED <<roadSegments, pc>>
  /\ UNCHANGED <<flowVars, searchVars, panelVars>>

FindShortestPath ==
  /\ pc = "built"
  /\ calls < MaxCalls
  /\ \E startPoint \in QueryPts, endPoint \in QueryPts :
       \E r \in {findShortestPath(startPoint, endPoint, graph, roadSegments)} :
          /\ graph' = r.graph
          /\ last' = [op |-> "findShortestPath", p |-> startPoint, q |-> endPoint,
                      startId |-> r.startId, endId |-> r.endId, result |-> r.result]
  /\ calls' = calls + 1
  /\ UNCHANGED <<roadSegments, pc>>
  /\ UNCHANGED <<flowVars, searchVars, panelVars>>

Next == BuildRoadGraph \/ AddPointToGraph \/ FindShortestPath

Spec == Init /\ [][Next]_vars

\* ---------------------------------------------- calculatePath, step by step
\* Building centres (the sum of the coordinates is even, so that the closest
\* point of every road is a grid point): between two roads at the same
\* distance, beyond the end of a road, on roads, off every road.
CenterPts == { Pt(4, 4), Pt(20, 0), Pt(8, 12), Pt(12, 12), Pt(2, 10) }

\* The centres getBuildingCenters returns: one per selected building that
\* has a footprint.
CenterLists == UNION {[1..n -> CenterPts] : n \in 0..MaxBuildings}

\* What createObstacleHighlightGeoJSON may be given as a road point.
RoadPointArgs == {Null} \cup {Some([point |-> p]) : p \in {Pt(0, 0), Pt(8, 8)}}

RouteInit ==
  /\ roadSegments = <<>>
  /\ graph = EmptyGraph
  /\ pc = "calculatePath"
  /\ calls = 0
  /\ last = NoCall
  /\ FlowIdle /\ SearchIdle /\ PanelIdle

\* Mutant: no check for an empty segment list.
GetRoadSegments_NoEmptyCheck ==
  /\ pc = "calculatePath"
  /\ \E segs \in SegLists :
       /\ roadSegments' = segs
       /\ outcome' = outcome
       /\ pc' = "centers"
  /\ UNCHANGED <<graph, calls, last, buildingCenters, snapped, searchVars, panelVars>>

\* forma-service.ts lines 165-169: await getRoadSegments().
GetRoadSegments ==
  /\ pc = "calculatePath"
  /\ \E segs \in SegLists :
       /\ roadSegments' = segs
       /\ IF Len(segs) = 0
          THEN /\ outcome' = PathFailure("No roads found in the scene", Null)
               /\ pc' = "returned"
          ELSE /\ outcome' = outcome
               /\ pc' = "centers"
  /\ UNCHANGED <<graph, calls, last, buildingCenters, snapped, searchVars, panelVars>>

\* forma-service.ts lines 171-216: await getBuildingCenters(), and the rest.
GetBuildingCenters ==
  /\ pc = "centers"
  /\ \E centers \in CenterLists :
       \E r \in {calculatePathFrom(roadSegments, centers)} :
          /\ buildingCenters' = centers
          /\ snapped' = r.snapped
          /\ outcome' = r.outcome
          /\ graph' = IF IsNull(r.graph) THEN graph ELSE Val(r.graph)
          /\ last' = IF IsNull(r.search) THEN last
                     ELSE [op |-> "findShortestPath",
                           p |-> Val(r.snapped[1]).point, q |-> Val(r.snapped[2]).point,
                           startId |-> Val(r.search).startId, endId |-> Val(r.search).endId,
                           result |-> Val(r.search).result]
  /\ pc' = "returned"
  /\ UNCHANGED <<roadSegments, calls, searchVars, panelVars>>

\* part_002 lines 25-76: createObstacleHighlightGeoJSON on its own.
CreateObstacleHighlight ==
  /\ pc = "calculatePath"
  /\ \E centers \in [1..2 -> CenterPts], s \in RoadPointArgs, e \in RoadPointArgs :
       /\ buildingCenters' = centers
       /\ snapped' = <<s, e>>
       /\ outcome' = [NoOutcome EXCEPT !.geojson = createObstacleHighlightGeoJSON(centers, s, e)]
  /\ pc' = "highlight"
  /\ UNCHANGED <<roadSegments, graph, calls, last, searchVars, panelVars>>

\* geometry-utils.ts lines 35-63: findClosestRoadPoint on its own.
FindClosestRoadPoint ==
  /\ pc = "calculatePath"
  /\ \E segs \in SegLists, buildingCenter \in CenterPts :
       /\ roadSegments' = segs
       /\ buildingCenters' = <<buildingCenter>>
       /\ snapped' = <<findClosestRoadPoint(buildingCenter, segs), Null>>
  /\ pc' = "snapped"
  /\ UNCHANGED <<graph, calls, last, outcome, searchVars, panelVars>>

RouteNext ==
  GetRoadSegments \/ GetBuildingCenters \/ CreateObstacleHighlight \/ FindClosestRoadPoint

RouteSpec == RouteInit /\ [][RouteNext]_vars

\* ------------------------------------------------- what the claims speak of
\* The point is within 0.001 (per axis) of its projection onto the segment's
\* line and the projection lies between the segment's ends; for a segment of
\* no length, the point is within 0.001 (per axis) of its start.
LiesOnSegment(point, segment) ==
  LET dx == segment.end.x - segment.start.x
      dy == segment.end.y - segment.start.y
      len2 == dx * dx + dy * dy
      dot == (point.x - segment.start.x) * dx + (point.y - segment.start.y) * dy
  IN IF len2 = 0
     THEN /\ Abs(point.x - segment.start.x) < 4
          /\ Abs(point.y - segment.start.y) < 4
     ELSE /\ 0 <= dot /\ dot <= len2
          /\ Abs(len2 * (segment.start.x - point.x) + dot * dx) < 4 * len2
          /\ Abs(len2 * (segment.start.y - point.y) + dot * dy) < 4 * len2

\* The point's projection parameter onto the segment lies in [0,1], wherever
\* the point is.
ProjectsWithin(point, segment) ==
  LET dx == segment.end.x - segment.start.x
      dy == segment.end.y - segment.start.y
      len2 == dx * dx + dy * dy
      dot == (point.x - segment.start.x) * dx + (point.y - segment.start.y) * dy
  IN IF len2 = 0 THEN LiesOnSegment(point, segment)
     ELSE 0 <= dot /\ dot <= len2

IsNode(g, id) == \E k \in 1..Len(g.nodes) : g.nodes[k].id = id

\* The ids an adjacency list names, in order.
Neighbours(list) == [k \in 1..Len(list) |-> list[k].nodeId]

Entry(id, w) == [nodeId |-> id, distance |-> w]

\* The call that has just returned, as the step into the state holding it.
AddCall == last'.op = "addPointToGraph"
FindCall == last'.op = "findShortestPath"

\* ------------------------------------------------------------------- C5
\* C5: addPointToGraph changes the graph only when it creates a new node.
\* When a node with the point's id exists it returns that id, when no segment
\* matches it returns null, and in both cases nodes, edges and adjacency are
\* as before the call.
C5_NoMutationUnlessNewNode ==
  [][AddCall =>
       LET point == last'.p
           id == pointToId(point)
           exists == IsNode(graph, id)
           matches == \E i \in 1..Len(roadSegments) : LiesOnSegment(point, roadSegments[i])
       IN /\ exists => last'.startId = Some(id) /\ graph' = graph
          /\ (~exists /\ ~matches) => last'.startId = Null /\ graph' = graph
          /\ graph' # graph =>
               /\ ~exists
               /\ graph'.nodes = Append(graph.nodes, [id |-> id, point |-> point])
               /\ last'.startId = Some(id)]_vars

\* An existing node was asked for on a graph with edges, and the graph is the
\* built one.
C5_Witness ==
  /\ last.op = "addPointToGraph"
  /\ last.startId = Some(pointToId(last.p))
  /\ Len(graph.edges) > 0
  /\ graph = buildRoadGraph(roadSegments)

\* ------------------------------------------------------------------- C6
\* C6: a new node created by addPointToGraph on a matched segment is joined
\* only to that segment's two endpoint nodes, each with the Euclidean distance
\* from the point as weight, the same entry is appended to the endpoint's own
\* list, and no other list changes; a midpoint of a single segment of length
\* 16 gets weights 8 and 8.
C6_NewNodeJoinsSegmentEnds ==
  [][(AddCall /\ graph' # graph) =>
       LET point == last'.p
           id == pointToId(point)
           i == CHOOSE k \in 1..Len(roadSegments) :
                  /\ LiesOnSegment(point, roadSegments[k])
                  /\ \A m \in 1..(k - 1) : ~LiesOnSegment(point, roadSegments[m])
           s == pointToId(roadSegments[i].start)
           e == pointToId(roadSegments[i].end)
           ws == distanceBetweenPoints(point, roadSegments[i].start)
           we == distanceBetweenPoints(point, roadSegments[i].end)
           old == graph.adjacency
           new == graph'.adjacency
       IN /\ DOMAIN new = DOMAIN old \cup {id}
          /\ id \notin DOMAIN old
          /\ new[id] = <<Entry(s, ws), Entry(e, we)>>
          /\ s # e => new[s] = Append(old[s], Entry(id, ws))
          /\ s # e => new[e] = Append(old[e], Entry(id, we))
          /\ s = e => new[s] = old[s] \o <<Entry(id, ws), Entry(id, we)>>
          /\ \A n \in DOMAIN old \ {s, e} : new[n] = old[n]
          /\ graph'.edges = graph.edges
          /\ (roadSegments = <<Seg(Pt(0, 8), Pt(16, 8))>> /\ point = Pt(8, 8)) =>
               new[id] = <<Entry(pointToId(Pt(0, 8)), 8000), Entry(pointToId(Pt(16, 8)), 8000)>>]_vars

\* The midpoint (8,8) was inserted into the graph of the single segment
\* (0,8)-(16,8).
C6_Witness ==
  /\ last.op = "addPointToGraph"
  /\ roadSegments = <<Seg(Pt(0, 8), Pt(16, 8))>>
  /\ last.p = Pt(8, 8)
  /\ Len(graph.nodes) = 3
  /\ Neighbours(graph.adjacency[pointToId(Pt(8, 8))]) = <<pointToId(Pt(0, 8)), pointToId(Pt(16, 8))>>

\* ------------------------------------------------------------------- C7
\* C7 as stated: a point whose id is no node is attached to the first
\* segment, in the original order, onto which its projection parameter lies in
\* [0,1], with no check of how far the point is from that segment.
C7_FirstProjectionNoTolerance ==
  [][(AddCall /\ ~IsNode(graph, pointToId(last'.p))) =>
       LET point == last'.p
           hits == {k \in 1..Len(roadSegments) : ProjectsWithin(point, roadSegments[k])}
       IN IF hits = {} THEN last'.startId = Null
          ELSE LET i == CHOOSE k \in hits : \A m \in hits : k <= m
               IN /\ last'.startId = Some(pointToId(point))
                  /\ Neighbours(graph'.adjacency[pointToId(point)])
                       = <<pointToId(roadSegments[i].start), pointToId(roadSegments[i].end)>>]_vars

\* C7 amended: a point whose id is no node is attached to the first segment,
\* in the original order, on which it lies: its projection parameter is in
\* [0,1] and the point is within 0.001 (per axis) of its projection, the
\* builder's own on-segment test; with no such segment it is not attached.
C7_FirstSegmentWithinTolerance ==
  [][(AddCall /\ ~IsNode(graph, pointToId(last'.p))) =>
       LET point == last'.p
           hits == {k \in 1..Len(roadSegments) : LiesOnSegment(point, roadSegments[k])}
       IN IF hits = {} THEN last'.startId = Null /\ graph' = graph
          ELSE LET i == CHOOSE k \in hits : \A m \in hits : k <= m
               IN /\ last'.startId = Some(pointToId(point))
                  /\ Neighbours(graph'.adjacency[pointToId(point)])
                       = <<pointToId(roadSegments[i].start), pointToId(roadSegments[i].end)>>]_vars

\* A point lying on both segments was attached to the first, whose ends are
\* not the second's; and the point is not exactly on the line of the first.
C7_Witness ==
  /\ last.op = "addPointToGraph"
  /\ Len(roadSegments) = 2
  /\ LiesOnSegment(last.p, roadSegments[1])
  /\ LiesOnSegment(last.p, roadSegments[2])
  /\ {roadSegments[1].start, roadSegments[1].end} # {roadSegments[2].start, roadSegments[2].end}
  /\ last.p = Pt(4, 2)
  /\ IsNode(graph, pointToId(last.p))
  /\ Neighbours(graph.adjacency[pointToId(last.p)])
       = <<pointToId(roadSegments[1].start), pointToId(roadSegments[1].end)>>

\* ------------------------------------------------------------------- C4
\* C4: findShortestPath from or to a point that cannot be attached fails with
\* 'Start point is not on any road' (start unattachable) or 'End point is not
\* on any road' (start attached, end unattachable), and the graph holds no
\* trace of the unattachable point: no node, no adjacency key, no entry.
C4_NotOnAnyRoad ==
  [][FindCall =>
       LET Unattachable(pt) ==
             /\ ~IsNode(graph, pointToId(pt))
             /\ \A k \in 1..Len(roadSegments) : ~LiesOnSegment(pt, roadSegments[k])
           Untouched(id) ==
             /\ ~IsNode(graph', id)
             /\ id \notin DOMAIN graph'.adjacency
             /\ \A n \in DOMAIN graph'.adjacency :
                  \A k \in 1..Len(graph'.adjacency[n]) : graph'.adjacency[n][k].nodeId # id
           Fails(msg) ==
             last'.result = [success |-> FALSE, path |-> <<>>, distance |-> 0, error |-> msg]
       IN /\ Unattachable(last'.p) =>
               Fails("Start point is not on any road") /\ Untouched(pointToId(last'.p))
          /\ (~Unattachable(last'.p) /\ Unattachable(last'.q)) =>
               Fails("End point is not on any road") /\ Untouched(pointToId(last'.q))]_vars

\* The search failed on its end point after its start point was inserted as a
\* new node.
C4_Witness ==
  /\ last.op = "findShortestPath"
  /\ last.result.error = "End point is not on any road"
  /\ IsNode(graph, pointToId(last.p))
  /\ ~IsNode(buildRoadGraph(roadSegments), pointToId(last.p))
  /\ ~IsNode(graph, pointToId(last.q))

\* ------------------------------------------------------------------- C2
\* The least total weight of a walk from node s in g.adjacency, per node
\* (Null: no walk), by relaxing every entry until nothing changes.
RECURSIVE LeastWeights(_, _, _)
LeastWeights(adj, d, rounds) ==
  LET Better(v) ==
        UNION {{Val(d[u]) + adj[u][k].distance :
                  k \in {m \in 1..Len(adj[u]) : adj[u][m].nodeId = v}} :
               u \in {n \in DOMAIN adj : ~IsNull(d[n])}}
      Least(v) ==
        LET c == Better(v) \cup (IF IsNull(d[v]) THEN {} ELSE {Val(d[v])})
        IN IF c = {} THEN Null ELSE Some(CHOOSE w \in c : \A x \in c : w <= x)
      d2 == [v \in DOMAIN adj |-> Least(v)]
  IN IF rounds = 0 \/ d2 = d THEN d ELSE LeastWeights(adj, d2, rounds - 1)

LeastWeight(adj, s, e) ==
  LeastWeights(adj, [v \in DOMAIN adj |-> IF v = s THEN Some(0) ELSE Null],
               Cardinality(DOMAIN adj))[e]

\* The weights u lists for v.
WeightsTo(adj, u, v) == {adj[u][k].distance : k \in {m \in 1..Len(adj[u]) : adj[u][m].nodeId = v}}

RECURSIVE WalkWeight(_, _, _)
\* The total weight of the walk ids[k..], taking the least weight per step.
WalkWeight(adj, ids, k) ==
  IF k >= Len(ids) THEN 0
  ELSE LET ws == WeightsTo(adj, ids[k], ids[k + 1])
       IN (CHOOSE w \in ws : \A x \in ws : w <= x) + WalkWeight(adj, ids, k + 1)

\* C2: when the search succeeds, the returned nodes are a walk in
\* graph.adjacency from the start node to the end node, the returned distance
\* is the walk's total weight, and no walk between them weighs less.
C2_MinimumWeightWalk ==
  (last.op = "findShortestPath" /\ last.result.success) =>
    LET path == last.result.path
        ids == [k \in 1..Len(path) |-> pointToId(path[k])]
        adj == graph.adjacency
    IN /\ Len(ids) >= 1
       /\ ids[1] = Val(last.startId)
       /\ ids[Len(ids)] = Val(last.endId)
       /\ \A k \in 1..(Len(ids) - 1) : WeightsTo(adj, ids[k], ids[k + 1]) # {}
       /\ last.result.distance = WalkWeight(adj, ids, 1)
       /\ Some(last.result.distance) = LeastWeight(adj, ids[1], ids[Len(ids)])

\* A search succeeded with a walk of three edges or more between nodes that
\* a heavier walk joins too (the end node has two neighbours or more).
C2_Witness ==
  /\ last.op = "findShortestPath"
  /\ last.result.success
  /\ Len(last.result.path) >= 4
  /\ Len(graph.adjacency[Val(last.endId)]) >= 2

\* ------------------------------------------------------------------- C3
\* Exact geometry: the point is on the closed segment; the segments have a
\* point in common.
Orient(a, b, c) == (b.x - a.x) * (c.y - a.y) - (b.y - a.y) * (c.x - a.x)

ExactlyOn(pt, segment) ==
  LET a == segment.start
      b == segment.end
  IN /\ Orient(a, b, pt) = 0
     /\ (a.x <= pt.x /\ pt.x <= b.x) \/ (b.x <= pt.x /\ pt.x <= a.x)
     /\ (a.y <= pt.y /\ pt.y <= b.y) \/ (b.y <= pt.y /\ pt.y <= a.y)

SharePoint(s1, s2) ==
  LET o1 == Orient(s1.start, s1.end, s2.start)
      o2 == Orient(s1.start, s1.end, s2.end)
      o3 == Orient(s2.start, s2.end, s1.start)
      o4 == Orient(s2.start, s2.end, s1.end)
  IN \/ /\ (o1 > 0 /\ o2 < 0) \/ (o1 < 0 /\ o2 > 0)
        /\ (o3 > 0 /\ o4 < 0) \/ (o3 < 0 /\ o4 > 0)
     \/ ExactlyOn(s2.start, s1) \/ ExactlyOn(s2.end, s1)
     \/ ExactlyOn(s1.start, s2) \/ ExactlyOn(s1.end, s2)

NoPathFound == [success |-> FALSE, path |-> <<>>, distance |-> 0,
                error |-> "No path found between the two points"]

\* C3: with both points attached, an end node that no walk in graph.adjacency
\* reaches from the start node gives 'No path found between the two points',
\* an empty path and distance 0, and that error is never given when a walk
\* exists; two segments with no point in common give it for points on
\* different segments.
C3_NoPathFound ==
  last.op = "findShortestPath" =>
    /\ (~IsNull(last.startId) /\ ~IsNull(last.endId)) =>
         (IsNull(LeastWeight(graph.adjacency, Val(last.startId), Val(last.endId)))
            <=> last.result = NoPathFound)
    /\ last.result.error = "No path found between the two points" =>
         /\ ~IsNull(last.startId) /\ ~IsNull(last.endId)
         /\ last.result = NoPathFound
    /\ (/\ Len(roadSegments) = 2
        /\ ~SharePoint(roadSegments[1], roadSegments[2])
        /\ \E a \in 1..2 : /\ ExactlyOn(last.p, roadSegments[a])
                           /\ ExactlyOn(last.q, roadSegments[3 - a])) =>
         last.result = NoPathFound

\* ------------------------------------------------------------------- C8
\* The graph is the one buildRoadGraph returned: nothing was inserted since.
JustBuilt == pc = "built" /\ calls = 0

\* The grid points of the square the segments span.
SpanOf(segs) ==
  LET cs == UNION {{segs[i].start.x, segs[i].start.y, segs[i].end.x, segs[i].end.y} :
                     i \in 1..Len(segs)}
      lo == CHOOSE c \in cs : \A d \in cs : c <= d
      hi == CHOOSE c \in cs : \A d \in cs : d <= c
  IN IF cs = {} THEN {} ELSE {Pt(x, y) : x \in lo..hi, y \in lo..hi}

\* The points two segments have in common, by exact geometry.
CommonPoints(s1, s2, span) == {p \in span : ExactlyOn(p, s1) /\ ExactlyOn(p, s2)}

\* The intersection points: the common point of every pair of segments, at
\* different positions of the list, that has exactly one.
IntersectionPoints(segs) ==
  LET span == SpanOf(segs)
      Common(pair) == CommonPoints(segs[pair[1]], segs[pair[2]], span)
  IN UNION {Common(pair) :
              pair \in {pr \in (1..Len(segs)) \X (1..Len(segs)) :
                          pr[1] # pr[2] /\ Cardinality(Common(pr)) = 1}}

EndPoints(segs) == UNION {{segs[i].start, segs[i].end} : i \in 1..Len(segs)}

\* C8: after buildRoadGraph(S) the node ids are exactly the canonical ids of
\* the endpoints of the segments and of the intersection point of every pair
\* of distinct segments that has one, with one node per id; (0,8)-(16,8) and
\* (8,0)-(8,16) give a node at (8,8); no segments give the empty graph.
C8_EndpointsAndIntersections ==
  JustBuilt =>
    /\ NodeIds(graph.nodes)
         = {pointToId(p) : p \in EndPoints(roadSegments) \cup IntersectionPoints(roadSegments)}
    /\ \A a, b \in 1..Len(graph.nodes) : graph.nodes[a].id = graph.nodes[b].id => a = b
    /\ \A a \in 1..Len(graph.nodes) : graph.nodes[a].id = pointToId(graph.nodes[a].point)
    /\ roadSegments = <<Seg(Pt(0, 8), Pt(16, 8)), Seg(Pt(8, 0), Pt(8, 16))>> =>
         IsNode(graph, pointToId(Pt(8, 8)))
    /\ roadSegments = <<>> => graph = EmptyGraph

\* Two segments that cross away from their ends were built into a graph of
\* five nodes, the fifth at the crossing.
C8_Witness ==
  /\ JustBuilt
  /\ Len(roadSegments) = 2
  /\ IntersectionPoints(roadSegments) \ EndPoints(roadSegments) # {}
  /\ Len(graph.nodes) = 5
  /\ graph.nodes[5].point \in IntersectionPoints(roadSegments)

\* ------------------------------------------------------------------- C9
\* The nodes lying on the segment, as positions in the node list, ordered by
\* projection parameter ascending (of equal parameters, the earlier node
\* first).  On one segment the parameters compare as their numerators.
OrderOnSegment(nodes, segment) ==
  LET dx == segment.end.x - segment.start.x
      dy == segment.end.y - segment.start.y
      on == {k \in 1..Len(nodes) : LiesOnSegment(nodes[k].point, segment)}
      Dot(k) == (nodes[k].point.x - segment.start.x) * dx
                  + (nodes[k].point.y - segment.start.y) * dy
      Before(a, b) == Dot(a) < Dot(b) \/ (Dot(a) = Dot(b) /\ a < b)
  IN [r \in 1..Cardinality(on) |->
        CHOOSE k \in on : Cardinality({m \in on : Before(m, k)}) = r - 1]

\* The consecutive pairs of the segment's order, as edges, with the pair's
\* Euclidean distance; kept are the pairs at least `least` apart.
EdgesAlong(nodes, segment, least) ==
  LET ord == OrderOnSegment(nodes, segment)
      Pair(r) == [from |-> nodes[ord[r]].id, to |-> nodes[ord[r + 1]].id,
                  distance |-> distanceBetweenPoints(nodes[ord[r]].point,
                                                     nodes[ord[r + 1]].point)]
  IN {<<r, Pair(r)>> : r \in {m \in 1..(Len(ord) - 1) : Pair(m).distance >= least}}

\* How many times the sequence holds the value.
Count(seq, v) == Cardinality({k \in 1..Len(seq) : seq[k] = v})

\* graph.edges holds the edges of every segment, each as often as the
\* segments yield it, and no other.
EdgesAre(g, segs, least) ==
  LET Yield(i) == EdgesAlong(g.nodes, segs[i], least)
      all == UNION {{<<i, pe[1], pe[2]>> : pe \in Yield(i)} : i \in 1..Len(segs)}
  IN /\ Len(g.edges) = Cardinality(all)
     /\ \A e \in all : Count(g.edges, e[3]) = Cardinality({f \in all : f[3] = e[3]})

\* graph.adjacency has a list per node, holding every edge of graph.edges
\* at both its ends with the edge's weight, and nothing else.
AdjacencyMirrorsEdges(g) ==
  /\ DOMAIN g.adjacency = NodeIds(g.nodes)
  /\ \A n \in DOMAIN g.adjacency :
       /\ Len(g.adjacency[n])
            = Cardinality({k \in 1..Len(g.edges) : g.edges[k].from = n})
              + Cardinality({k \in 1..Len(g.edges) : g.edges[k].to = n})
       /\ \A j \in 1..Len(g.adjacency[n]) :
            LET x == g.adjacency[n][j]
            IN Count(g.adjacency[n], x)
                 = Cardinality({k \in 1..Len(g.edges) :
                                  g.edges[k] = [from |-> n, to |-> x.nodeId, distance |-> x.distance]})
                   + Cardinality({k \in 1..Len(g.edges) :
                                  g.edges[k] = [from |-> x.nodeId, to |-> n, distance |-> x.distance]})

RECURSIVE Component(_, _)
\* The segments joined to those of `reached` through shared points.
Component(segs, reached) ==
  LET more == {j \in 1..Len(segs) : \E i \in reached : SharePoint(segs[i], segs[j])}
  IN IF more \subseteq reached THEN reached ELSE Component(segs, reached \cup more)

\* The two locations are joined within the union of the segments.
JoinedAlongSegments(segs, p, q) ==
  \E i, j \in 1..Len(segs) :
     /\ ExactlyOn(p, segs[i])
     /\ ExactlyOn(q, segs[j])
     /\ j \in Component(segs, {i})

\* A walk in adjacency joins the two nodes.
JoinedInGraph(adj, u, v) == ~IsNull(LeastWeight(adj, u, v))

\* C10: the built graph is connected exactly along the union of the
\* segments.  Two nodes are joined by a walk in graph.adjacency if and only
\* if their locations are joined within the union of the segments; the
\* endpoints of two segments that share a point are all joined; and every
\* entry of graph.adjacency runs along a segment holding both its nodes, so
\* that segments sharing no point are not joined directly.
C10_ConnectedAlongUnion ==
  JustBuilt =>
    LET n == graph.nodes
        adj == graph.adjacency
    IN /\ \A a, b \in 1..Len(n) :
            JoinedInGraph(adj, n[a].id, n[b].id)
              <=> JoinedAlongSegments(roadSegments, n[a].point, n[b].point)
       /\ \A i, j \in 1..Len(roadSegments) :
            SharePoint(roadSegments[i], roadSegments[j]) =>
              \A p, q \in EndPoints(<<roadSegments[i], roadSegments[j]>>) :
                 JoinedInGraph(adj, pointToId(p), pointToId(q))
       /\ \A a, b \in 1..Len(n) :
            WeightsTo(adj, n[a].id, n[b].id) # {} =>
              \E i \in 1..Len(roadSegments) :
                 ExactlyOn(n[a].point, roadSegments[i]) /\ ExactlyOn(n[b].point, roadSegments[i])

\* ------------------------------------------------------------------- C1
\* The places where a route may leave one segment for another: the ends of
\* the segments and the intersection points, with the two query points.
Waypoints(segs, p, q) == EndPoints(segs) \cup IntersectionPoints(segs) \cup {p, q}

RECURSIVE LeastLengths(_, _, _, _)
\* The least length of a route from the waypoints at length 0 in d, moving
\* between waypoints of one segment along that segment (Null: no route).
LeastLengths(segs, pts, d, rounds) ==
  LET Legs(v) ==
        {Val(d[u]) + distanceBetweenPoints(u, v) :
           u \in {w \in pts : /\ ~IsNull(d[w])
                               /\ \E i \in 1..Len(segs) :
                                    ExactlyOn(w, segs[i]) /\ ExactlyOn(v, segs[i])}}
      Least(v) ==
        LET c == Legs(v) \cup (IF IsNull(d[v]) THEN {} ELSE {Val(d[v])})
        IN IF c = {} THEN Null ELSE Some(CHOOSE w \in c : \A x \in c : w <= x)
      d2 == [v \in pts |-> Least(v)]
  IN IF rounds = 0 \/ d2 = d THEN d ELSE LeastLengths(segs, pts, d2, rounds - 1)

\* The length of the shortest route from p to q that moves only along the
\* segments, in thousandths of a grid unit (Null: the network does not join
\* them).
AlongNetworkDistance(segs, p, q) ==
  LET pts == Waypoints(segs, p, q)
  IN LeastLengths(segs, pts, [v \in pts |-> IF v = p THEN Some(0) ELSE Null],
                  Cardinality(pts))[q]

\* C1: for points p and q on segments of S that the network joins,
\* findShortestPath(p, q, buildRoadGraph(S), S) succeeds and its distance is
\* the length of the shortest route from p to q along the segments (to
\* within the rounding of the distances added up, 0.01 of a grid unit).
C1_TrueAlongNetworkDistance ==
  (last.op = "findShortestPath" /\ calls = 1) =>
    LET p == last.p
        q == last.q
        OnNetwork(pt) == \E i \in 1..Len(roadSegments) : ExactlyOn(pt, roadSegments[i])
        true == AlongNetworkDistance(roadSegments, p, q)
    IN (OnNetwork(p) /\ OnNetwork(q) /\ ~IsNull(true)) =>
         /\ last.result.success
         /\ Abs(last.result.distance - Val(true)) <= 10

\* ------------------------------------------ several calls on one graph
\* The road networks: one road; a road of exactly 1 mm; a T junction; a 1 mm
\* spur before its road; a zero-length road before a road through it; a road
\* ending half a millimetre short of another; a diagonal road.
ReuseScenes ==
  { <<Seg(Pt(0, 0), Pt(16, 0))>>,
    <<Seg(Pt(16, 4), Pt(16, 0))>>,
    <<Seg(Pt(0, 0), Pt(16, 0)), Seg(Pt(8, 0), Pt(8, 16))>>,
    <<Seg(Pt(16, 4), Pt(16, 0)), Seg(Pt(0, 0), Pt(16, 0))>>,
    <<Seg(Pt(8, 8), Pt(8, 8)), Seg(Pt(8, 0), Pt(8, 16))>>,
    <<Seg(Pt(0, 0), Pt(16, 0)), Seg(Pt(8, 16), Pt(8, 2))>>,
    <<Seg(Pt(0, 0), Pt(16, 16))>> }

\* Query points: on the roads at and between nodes, and within the
\* tolerance of a road.
ReusePts ==
  { Pt(4, 0), Pt(12, 0), Pt(16, 0), Pt(16, 2), Pt(16, 4), Pt(8, 8), Pt(9, 8) }

ReuseInit ==
  /\ roadSegments \in ReuseScenes
  /\ graph = EmptyGraph
  /\ pc = "segments"
  /\ calls = 0
  /\ last = NoCall
  /\ FlowIdle /\ SearchIdle /\ PanelIdle

\* part_001 lines 119-161: one more addPointToGraph on the same graph.
ReuseAddPoint ==
  /\ pc = "built"
  /\ calls < MaxQueries
  /\ \E point \in ReusePts :
       \E r \in {addPointToGraph(graph, point, roadSegments)} :
          /\ graph' = r.graph
          /\ last' = [NoCall EXCEPT !.op = "addPointToGraph", !.p = point,
                                    !.startId = r.id]
  /\ calls' = calls + 1
  /\ UNCHANGED <<roadSegments, pc>>
  /\ UNCHANGED <<flowVars, searchVars, panelVars>>

\* part_001 lines 232-282: one more findShortestPath on the same graph.
ReuseFindPath ==
  /\ pc = "built"
  /\ calls < MaxQueries
  /\ \E startPoint \in ReusePts, endPoint \in ReusePts :
       \E r \in {findShortestPath(startPoint, endPoint, graph, roadSegments)} :
          /\ graph' = r.graph
          /\ last' = [op |-> "findShortestPath", p |-> startPoint, q |-> endPoint,
                      startId |-> r.startId, endId |-> r.endId, result |-> r.result]
  /\ calls' = calls + 1
  /\ UNCHANGED <<roadSegments, pc>>
  /\ UNCHANGED <<flowVars, searchVars, panelVars>>

ReuseNext == BuildRoadGraph \/ ReuseAddPoint \/ ReuseFindPath

ReuseSpec == ReuseInit /\ [][ReuseNext]_vars

\* ------------------------------------------------- dijkstra, step by step
\* The graphs searched: a road network built and two points inserted.
SearchGraphs(segs) ==
  {addPointToGraph(addPointToGraph(buildRoadGraph(segs), p, segs).graph, q, segs).graph :
     p \in ReusePts, q \in ReusePts}

\* The ids asked for: the nodes, and an id that is no node.
SearchIds(g) == NodeIds(g.nodes) \cup {pointToId(Pt(20, 12))}

SearchInit ==
  /\ roadSegments \in ReuseScenes
  /\ graph \in SearchGraphs(roadSegments)
  /\ pc = "built"
  /\ calls = 0
  /\ last = NoCall
  /\ FlowIdle /\ SearchIdle /\ PanelIdle

\* Lines 163-185: the call, up to the loop.
DijkstraCall ==
  /\ dj.phase = "none"
  /\ \E startId \in SearchIds(graph), endId \in SearchIds(graph) :
       dj' = IF ~HasNode(graph.nodes, startId) \/ ~HasNode(graph.nodes, endId)
             THEN [phase |-> "done", startId |-> startId, endId |-> endId, result |-> Null]
             ELSE [phase |-> "loop", startId |-> startId, endId |-> endId,
                   distances |-> [id \in NodeIds(graph.nodes) |->
                                    IF id = startId THEN Some(0) ELSE Infinity],
                   previous |-> [id \in NodeIds(graph.nodes) |-> Null],
                   visited |-> {},
                   queue |-> <<[nodeId |-> startId, distance |-> 0]>>,
                   current |-> Null, result |-> Null]
  /\ UNCHANGED <<graphVars, flowVars, panelVars>>

\* Lines 187-214: one iteration of the while loop.
DijkstraIterate ==
  /\ dj.phase = "loop"
  /\ dj.queue # <<>>
  /\ LET sorted == SortByDistance(dj.queue, 1, <<>>)
         current == Head(sorted)
         popped == [dj EXCEPT !.queue = Tail(sorted), !.current = Some(current)]
         neighbors == IF current.nodeId \in DOMAIN graph.adjacency
                      THEN graph.adjacency[current.nodeId] ELSE <<>>
         seen == [popped EXCEPT !.visited = @ \cup {current.nodeId}]
     IN dj' = IF current.nodeId \in dj.visited THEN popped
              ELSE IF current.nodeId = dj.endId THEN [seen EXCEPT !.phase = "exit"]
              ELSE Relax(neighbors, 1, current.nodeId, seen)
  /\ UNCHANGED <<graphVars, flowVars, panelVars>>

\* Lines 216-229: after the loop.
DijkstraReturn ==
  /\ dj.phase = "exit" \/ (dj.phase = "loop" /\ dj.queue = <<>>)
  /\ LET finalDistance == dj.distances[dj.endId]
     IN dj' = [dj EXCEPT !.phase = "done",
                         !.result = IF finalDistance = Infinity THEN Null
                                    ELSE Some([path |-> PathTo(dj.previous, Some(dj.endId), <<>>),
                                               distance |-> Val(finalDistance)])]
  /\ UNCHANGED <<graphVars, flowVars, panelVars>>

SearchNext == DijkstraCall \/ DijkstraIterate \/ DijkstraReturn

\* The loop is straight-line code: it runs on while it can.
SearchSpec ==
  SearchInit /\ [][SearchNext]_vars /\ WF_vars(DijkstraIterate) /\ WF_vars(DijkstraReturn)

\* ------------------------------------------------------------ the panel
\* The collections the host is asked to draw, and the Clear Path handlers
\* that may wait for the host at one time.
MaxAdds == 3
MaxResets == 3

\* The host's render calls complete in any order; a call takes effect in the
\* host and resumes the handler that awaits it in one step.  rendered is the
\* set of ids added and not removed; issued counts the ids the host gave out.
PanelInit ==
  /\ roadSegments = <<>>
  /\ graph = EmptyGraph
  /\ pc = "panel"
  /\ calls = 0
  /\ last = NoCall
  /\ FlowIdle /\ SearchIdle /\ PanelIdle

\* Without(s, i): the sequence s less its i-th element.
Without(s, i) == SubSeq(s, 1, i - 1) \o SubSeq(s, i + 1, Len(s))

\* Lines 73-80 with 62-65: the button is enabled by canFindPath (line 260);
\* the handler runs up to its first await of the host.
FindPath ==
  /\ ~isCalculating
  /\ isCalculating' = TRUE
  /\ findPathTask' = IF IsNull(pathIdRef) THEN [at |-> "lookup", id |-> Null]
                     ELSE [at |-> "remove", id |-> pathIdRef]
  /\ UNCHANGED <<pathIdRef, rendered, resetTasks, issued, graphVars, flowVars, searchVars>>

\* Lines 65-69: the removal awaited by findPath completes.
FindPathRemoved ==
  /\ findPathTask.at = "remove"
  /\ rendered' = rendered \ {Val(findPathTask.id)}
  /\ pathIdRef' = Null
  /\ findPathTask' = [at |-> "lookup", id |-> Null]
  /\ UNCHANGED <<isCalculating, resetTasks, issued, graphVars, flowVars, searchVars>>

\* Lines 82-162: the geometry is fetched and the route computed; the handler
\* either returns with nothing to draw or asks the host to add a collection
\* (the path, line 163, or the highlight, line 228).
FindPathLookup ==
  /\ findPathTask.at = "lookup"
  /\ \E draws \in BOOLEAN :
       IF draws /\ issued < MaxAdds
       THEN /\ findPathTask' = [at |-> "add", id |-> Null]
            /\ UNCHANGED isCalculating
       ELSE /\ findPathTask' = NoTask
            /\ isCalculating' = FALSE
  /\ UNCHANGED <<pathIdRef, rendered, resetTasks, issued, graphVars, flowVars, searchVars>>

\* Lines 163-164 and 228-229, then 174-176: the host has added the collection.
FindPathAdded ==
  /\ findPathTask.at = "add"
  /\ issued' = issued + 1
  /\ rendered' = rendered \cup {issued + 1}
  /\ pathIdRef' = Some(issued + 1)
  /\ isCalculating' = FALSE
  /\ findPathTask' = NoTask
  /\ UNCHANGED <<resetTasks, graphVars, flowVars, searchVars>>

\* Lines 255-258 with 62-65: Clear Path is always enabled (line 283).
Reset ==
  /\ Len(resetTasks) < MaxResets
  /\ resetTasks' = IF IsNull(pathIdRef) THEN resetTasks
                   ELSE Append(resetTasks, Val(pathIdRef))
  /\ UNCHANGED <<pathIdRef, rendered, isCalculating, findPathTask, issued,
                 graphVars, flowVars, searchVars>>

\* Lines 65-69: a removal awaited by reset completes.
ResetRemoved ==
  \E i \in DOMAIN resetTasks :
    /\ rendered' = rendered \ {resetTasks[i]}
    /\ pathIdRef' = Null
    /\ resetTasks' = Without(resetTasks, i)
    /\ UNCHANGED <<isCalculating, findPathTask, issued, graphVars, flowVars, searchVars>>

PanelNext ==
  \/ FindPath
  \/ FindPathRemoved
  \/ FindPathLookup
  \/ FindPathAdded
  \/ Reset
  \/ ResetRemoved

PanelSpec == PanelInit /\ [][PanelNext]_vars

\* ------------------------------------------------------------------ C11
\* calculatePath has returned.
Returned == pc = "returned"

\* C11: on success the route is the first building centre, its snapped
\* point, the graph path, the second snapped point and the second building
\* centre, in one line; the graph path is a walk in the graph from the first
\* snapped point's node to the second's; and the reported distance is the
\* weight of that walk, the search's own distance, with nothing added for
\* the two legs from a centre to its snapped point.
C11_RouteAndSearchDistance ==
  (Returned /\ outcome.success) =>
    LET features == Val(outcome.geojson).features
        coords == features[1].coordinates
        n == Len(coords)
        walk == [k \in 1..(n - 4) |-> pointToId(Pt(coords[k + 2][1], coords[k + 2][2]))]
    IN /\ Len(features) = 1
       /\ n >= 5
       /\ coords[1] = Coord(buildingCenters[1])
       /\ coords[2] = Coord(Val(snapped[1]).point)
       /\ coords[n - 1] = Coord(Val(snapped[2]).point)
       /\ coords[n] = Coord(buildingCenters[2])
       /\ walk[1] = pointToId(Val(snapped[1]).point)
       /\ walk[n - 4] = pointToId(Val(snapped[2]).point)
       /\ \A k \in 1..(n - 5) : WeightsTo(graph.adjacency, walk[k], walk[k + 1]) # {}
       /\ outcome.distance = Some(WalkWeight(graph.adjacency, walk, 1))
       /\ outcome.distance = Some(last.result.distance)

\* A route was returned whose two connector legs both have length and whose
\* graph path has three nodes or more.
C11_Witness ==
  /\ Returned
  /\ outcome.success
  /\ Val(snapped[1]).distance > 0
  /\ Val(snapped[2]).distance > 0
  /\ Len(last.result.path) >= 3
  /\ Val(outcome.distance) > 0

DistSq(a, b) == (a.x - b.x) * (a.x - b.x) + (a.y - b.y) * (a.y - b.y)

\* The grid points of the segment itself.
PointsOn(segment) ==
  {p \in SpanOf(<<segment>>) : ExactlyOn(p, segment)}

\* The squared distance from the point to the segment: to its nearest point.
SegmentDistSq(c, segment) ==
  LET ds == {DistSq(c, p) : p \in PointsOn(segment)}
  IN CHOOSE d \in ds : \A e \in ds : d <= e

\* C13: findClosestRoadPoint returns null only for an empty segment list.
\* Otherwise it returns the point of a segment nearest to the query point,
\* for a segment whose distance to the query point is least over all
\* segments, with that distance and the segment's index; of several segments
\* at the least distance, the one of lowest index.
C13_ClosestRoadPoint ==
  pc = "snapped" =>
    LET c == buildingCenters[1]
        r == Val(snapped[1])
        i == r.segmentIndex + 1
        d2 == DistSq(c, r.point)
    IN /\ IsNull(snapped[1]) <=> roadSegments = <<>>
       /\ ~IsNull(snapped[1]) =>
            /\ i \in 1..Len(roadSegments)
            /\ ExactlyOn(r.point, roadSegments[i])
            /\ d2 = SegmentDistSq(c, roadSegments[i])
            /\ \A j \in 1..Len(roadSegments) : SegmentDistSq(c, roadSegments[j]) >= d2
            /\ \A j \in 1..(i - 1) : SegmentDistSq(c, roadSegments[j]) > d2
            /\ r.distance * r.distance <= d2 * 1000000
            /\ d2 * 1000000 < (r.distance + 1) * (r.distance + 1)

\* Two different segments are at the same, least, distance from the query
\* point, which is on neither; the first was returned.
C13_Witness ==
  /\ pc = "snapped"
  /\ Len(roadSegments) = 2
  /\ roadSegments[1] # roadSegments[2]
  /\ SegmentDistSq(buildingCenters[1], roadSegments[1])
       = SegmentDistSq(buildingCenters[1], roadSegments[2])
  /\ Val(snapped[1]).distance > 0
  /\ Val(snapped[1]).segmentIndex = 0
  /\ PointsOn(roadSegments[1]) \cap PointsOn(roadSegments[2]) = {}

C15_DiagnosticLines ==
  (pc = "highlight" \/ (Returned /\ ~outcome.success /\ Len(buildingCenters) = 2)) =>
    LET present == {k \in 1..2 : ~IsNull(snapped[k])}
        Line(k) == <<Coord(buildingCenters[k]), Coord(Val(snapped[k]).point)>>
    IN IF present = {} THEN IsNull(outcome.geojson)
       ELSE /\ ~IsNull(outcome.geojson)
            /\ LET features == Val(outcome.geojson).features
               IN /\ Len(features) = Cardinality(present)
                  /\ Len(features) <= 2
                  /\ 1 \in present => features[1].coordinates = Line(1)
                  /\ 2 \in present => features[Len(features)].coordinates = Line(2)

\* The search failed between the snapped points of two different building
\* centres, and the result carries two lines.
C15_Witness ==
  /\ Returned
  /\ ~outcome.success
  /\ Len(buildingCenters) = 2
  /\ buildingCenters[1] # buildingCenters[2]
  /\ Val(snapped[1]).point # Val(snapped[2]).point
  /\ Len(Val(outcome.geojson).features) = 2

\* ------------------------------------------------------------------ C16
NotOnAnyRoad == {"Start point is not on any road", "End point is not on any road"}

\* C16: a point returned by findClosestRoadPoint for a non-empty segment
\* list is on a road for addPointToGraph on the graph built from the same
\* list.  It is a node after the search, and calculatePath never fails with
\* 'Start point is not on any road' or 'End point is not on any road'.
C16_SnappedPointsAttach ==
  /\ (pc = "snapped" /\ roadSegments # <<>>) =>
       \E i \in 1..Len(roadSegments) : LiesOnSegment(Val(snapped[1]).point, roadSegments[i])
  /\ (Returned /\ roadSegments # <<>> /\ Len(buildingCenters) = 2) =>
       /\ ~IsNull(snapped[1]) /\ ~IsNull(snapped[2])
       /\ last.op = "findShortestPath"
       /\ last.startId = Some(pointToId(Val(snapped[1]).point))
       /\ last.endId = Some(pointToId(Val(snapped[2]).point))
       /\ IsNode(graph, Val(last.startId)) /\ IsNode(graph, Val(last.endId))
       /\ last.result.error \notin NotOnAnyRoad
       /\ outcome.success \/ Val(outcome.error) \notin NotOnAnyRoad

\* The first building centre was snapped to the end of a road it lies
\* beyond, the second to a zero-length road, and both were attached.
C16_Witness ==
  /\ Returned
  /\ Len(buildingCenters) = 2
  /\ Val(snapped[1]).distance > 0
  /\ Val(snapped[1]).point \in EndPoints(roadSegments)
  /\ ~ProjectsWithin(buildingCenters[1], roadSegments[Val(snapped[1]).segmentIndex + 1])
  /\ LET nearest == roadSegments[Val(snapped[2]).segmentIndex + 1]
     IN nearest.start = nearest.end
  /\ ~IsNull(last.startId) /\ ~IsNull(last.endId)

\* ------------------------------------------------------------------ C17
\* C17: in the built graph and after every later insertion, every node id
\* has an adjacency list and every list belongs to a node, every neighbour
\* is a node, u lists v with weight w exactly as often as v lists u with
\* weight w, every weight is non-negative, and no node lists itself.
C17_AdjacencyWellFormed ==
  pc = "built" =>
    LET adj == graph.adjacency
        ids == NodeIds(graph.nodes)
    IN /\ DOMAIN adj = ids
       /\ \A u \in ids :
            \A k \in 1..Len(adj[u]) :
               LET v == adj[u][k].nodeId
                   w == adj[u][k].distance
               IN /\ v \in ids
                  /\ w >= 0
                  /\ v # u
                  /\ Count(adj[u], Entry(v, w)) = Count(adj[v], Entry(u, w))

\* Two points were inserted into a graph with edges, one of them onto a road
\* whose ends no edge joins: a node that listed nothing lists it now.
C17_Witness ==
  /\ pc = "built"
  /\ calls = 2
  /\ Len(graph.nodes) = Len(buildRoadGraph(roadSegments).nodes) + 2
  /\ Len(graph.edges) >= 1
  /\ \E u \in DOMAIN buildRoadGraph(roadSegments).adjacency :
       /\ buildRoadGraph(roadSegments).adjacency[u] = <<>>
       /\ graph.adjacency[u] # <<>>

\* ------------------------------------------------------------------ C19
\* C19: a query on a graph that holds the nodes of earlier queries answers
\* as the same query on the graph freshly built from the same segments: the
\* same success flag and the same distance (to within the rounding of the
\* distances added up, 0.01 of a grid unit).
C19_ReuseDoesNotChangeAnswers ==
  (pc = "built" /\ last.op = "findShortestPath") =>
    LET fresh == findShortestPath(last.p, last.q, buildRoadGraph(roadSegments),
                                  roadSegments).result
    IN /\ last.result.success = fresh.success
       /\ Abs(last.result.distance - fresh.distance) <= 10

\* ------------------------------------------------------------------ C20
\* One run of the loop body, and the frontier entries it pushed.
Iterated == dj.phase = "loop" /\ dj'.phase \in {"loop", "exit"} /\ dj' # dj
Pushed == SubSeq(dj'.queue, Len(dj.queue), Len(dj'.queue))

\* A run of the loop body on an entry whose node is finalized changes nothing
\* but the frontier; otherwise it finalizes that node, which was not so before.
FinalizesOnce ==
  Iterated =>
    LET n == Val(dj'.current).nodeId
    IN /\ dj'.visited \in {dj.visited, dj.visited \cup {n}}
       /\ n \in dj.visited =>
            /\ dj'.distances = dj.distances
            /\ dj'.previous = dj.previous
            /\ Len(dj'.queue) = Len(dj.queue) - 1
       /\ n \notin dj.visited => dj'.visited # dj.visited

\* Every pushed entry lowers its node's tentative distance strictly, no
\* distance rises, and a distance changes only with a push of the new value.
PushesOnStrictDecrease ==
  Iterated =>
    /\ Len(dj'.queue) >= Len(dj.queue) - 1
    /\ \A k \in DOMAIN Pushed :
         /\ DistLess(Pushed[k].distance, dj.distances[Pushed[k].nodeId])
         /\ Pushed[k].distance >= Val(dj'.distances[Pushed[k].nodeId])
         /\ Pushed[k].nodeId \notin dj'.visited
    /\ \A id \in DOMAIN dj.distances :
         dj'.distances[id] # dj.distances[id] =>
           \E k \in DOMAIN Pushed :
             Pushed[k] = [nodeId |-> id, distance |-> Val(dj'.distances[id])]

\* The loop is left only with the end node finalized or the frontier empty.
EndsOnEndOrEmpty ==
  (dj.phase \in {"loop", "exit"} /\ dj'.phase = "done") =>
    (dj.endId \in dj.visited \/ dj.queue = <<>>)

\* C20: dijkstra terminates: every call returns; a node is finalized at most
\* once; a frontier entry is pushed only on a strict decrease of its node's
\* tentative distance; the loop ends with the end node finalized or with the
\* frontier empty.
C20_DijkstraTerminates ==
  /\ [][FinalizesOnce /\ PushesOnStrictDecrease /\ EndsOnEndOrEmpty]_vars
  /\ [](dj.phase = "loop" => Cardinality(dj.visited) <= Len(graph.nodes))
  /\ (dj.phase = "loop") ~> (dj.phase = "done")

\* A search over a graph with inserted nodes went round the loop, met an entry
\* of a finalized node in the frontier, and returned a path of several edges.
C20_Witness ==
  /\ dj.phase = "done"
  /\ ~IsNull(dj.result)
  /\ Len(Val(dj.result).path) >= 3
  /\ Cardinality(dj.visited) >= 3
  /\ dj.queue # <<>>
  /\ \E k \in DOMAIN dj.queue : dj.queue[k].nodeId \in dj.visited
  /\ Len(graph.nodes) > Len(buildRoadGraph(roadSegments).nodes)

\* ------------------------------------------------------------------ C18
\* C18: every collection added to the host and not removed has its id held
\* in pathIdRef, so at most one collection is rendered and a Clear Path
\* pressed once the handlers have finished removes whatever is rendered.
C18_RenderedIsHeld ==
  \A id \in rendered : pathIdRef = Some(id)

====
